---- MODULE Spec2Model ----
(***************************************************************************)
(* Model of the GDP dashboard script src/app.py.                           *)
(*                                                                         *)
(* The script is run from top to bottom on every interaction.  One run     *)
(* calls the memoized loader get_gdp_data (read world_gdp.csv, keep the    *)
(* identifying and the year columns, melt them into a long table), reads   *)
(* the two sidebar widgets, filters the long table for the chart and       *)
(* computes one metric tile per selected country.                          *)
(*                                                                         *)
(* The state is the data file on disk, the process-wide cache of the       *)
(* loader and what the last run of the script produced.  A widget that     *)
(* the page has not shown yet returns its default: the slider the whole    *)
(* range of years, the multiselect the six codes of line 86, which it      *)
(* refuses (StreamlitAPIException) unless every one of them is among the   *)
(* offered codes.  A widget the page shows returns what the user made of   *)
(* it: a year range within the loaded years, an ordered duplicate-free     *)
(* choice among the offered codes.                                         *)
(*                                                                         *)
(* A cell of the GDP column is the number its digits spell, or NaN.  The   *)
(* arithmetic of the metrics is IEEE 754 binary64: a float is a 53 bit     *)
(* mantissa and an exponent, a quotient is rounded to the nearest float    *)
(* (ties to even), and a format specification rounds the float's own       *)
(* value.  A missing string cell (pandas NaN in an object column) is the   *)
(* string NaNStr, compared the way NaN compares: equal to nothing.         *)
(***************************************************************************)
EXTENDS Integers, Sequences, FiniteSets

\* ---------------------------------------------------------------- bounds
\* Number of year columns the loader keeps (MAX_YEAR - MIN_YEAR + 1; 65 in
\* the source, reduced here).
NumYears == 2
\* Number of in-range data cells a data file may hold besides the rows of
\* the default countries.
MaxExtraCells == 2
\* Number of countries the user picks in the multiselect.
MaxSelected == 1

\* ------------------------------------------------------- program constants
MIN_YEAR == 1960
MAX_YEAR == MIN_YEAR + NumYears - 1
BILLION == 1000000000
NumCols == 4
\* default=['DEU', 'FRA', 'GBR', 'BRA', 'MEX', 'JPN']
DefaultCodes == <<"DEU", "FRA", "GBR", "BRA", "MEX", "JPN">>

Years == MIN_YEAR..MAX_YEAR

Abs(n) == IF n < 0 THEN -n ELSE n
Range(s) == {s[i] : i \in 1..Len(s)}

\* ------------------------------------------------------------ table cells
NaN == [nan |-> TRUE, n |-> 0]
Num(n) == [nan |-> FALSE, n |-> n]

\* ---------------------------------------------------- binary64 arithmetic
\* A natural number below 2^60 is a tuple of four limbs of 15 bits, the
\* least significant first.
LimbBits == 15
W == 2^LimbBits
Limbs == 1..4
Zero4 == <<0, 0, 0, 0>>
One4 == <<1, 0, 0, 0>>
MantissaBits == 53
\* Bits the long division shifts into the dividend: enough for a 53 bit
\* quotient, a rounding bit and more.
QuotientShift == 55

Limb(a, i) == IF i >= 1 /\ i <= Len(a) THEN a[i] ELSE 0

\* a < b
Less(a, b) == \E i \in Limbs : a[i] < b[i] /\ \A j \in (i + 1)..4 : a[j] = b[j]

\* a - b, for a >= b
Sub(a, b) ==
    LET Borrow(i) == \E j \in 1..(i - 1) :
                        a[j] < b[j] /\ \A k \in (j + 1)..(i - 1) : a[k] <= b[k]
        D(i) == (a[i] - b[i] - (IF Borrow(i) THEN 1 ELSE 0)) % W
    IN <<D(1), D(2), D(3), D(4)>>

\* a + 1
Inc(a) ==
    LET D(i) == (a[i] + (IF \A j \in 1..(i - 1) : a[j] = W - 1 THEN 1 ELSE 0)) % W
    IN <<D(1), D(2), D(3), D(4)>>

\* a * 2^d, for a product below 2^60
ShiftL(a, d) ==
    LET q == d \div LimbBits
        r == d % LimbBits
        D(i) == ((Limb(a, i - q) * 2^r) % W) + (Limb(a, i - q - 1) \div 2^(LimbBits - r))
    IN <<D(1), D(2), D(3), D(4)>>

\* a \div 2^d
ShiftR(a, d) ==
    LET q == d \div LimbBits
        r == d % LimbBits
        D(i) == (Limb(a, i + q) \div 2^r) + ((Limb(a, i + q + 1) % 2^r) * 2^(LimbBits - r))
    IN <<D(1), D(2), D(3), D(4)>>

\* The number of bits of a: 0 for 0, else the position of the leading 1.
BitLen(a) ==
    IF a = Zero4 THEN 0
    ELSE LET t == CHOOSE i \in Limbs : a[i] # 0 /\ \A j \in (i + 1)..4 : a[j] = 0
         IN LimbBits * (t - 1)
            + (CHOOSE k \in 1..LimbBits : a[t] < 2^k /\ a[t] >= 2^(k - 1))

\* Bit i of a; bit 1 is the least significant.
BitOf(a, i) == (Limb(a, (i - 1) \div LimbBits + 1) \div 2^((i - 1) % LimbBits)) % 2

\* a * c in five limbs, for c <= W.
MulSmall(a, c) ==
    LET t1 == a[1] * c
        t2 == a[2] * c + (t1 \div W)
        t3 == a[3] * c + (t2 \div W)
        t4 == a[4] * c + (t3 \div W)
    IN <<t1 % W, t2 % W, t3 % W, t4 % W, t4 \div W>>

\* The value of a, for a below 2^31.
ToInt(a) == a[1] + W * a[2] + W * W * a[3]

\* The element of a set of one element.  The({F(v) : v \in {e}}) is F(e),
\* with e evaluated once.
The(S) == CHOOSE r \in S : TRUE

\* One step of binary long division by b: st.r is the remainder so far
\* (below b), st.q the quotient so far; r1 and q1 are their doubles.
DivStep(b, r1, q1) ==
    IF Less(r1, b) THEN [q |-> q1, r |-> r1] ELSE [q |-> Inc(q1), r |-> Sub(r1, b)]

\* k steps of it: the first half of them, then the others.
RECURSIVE DivSteps(_, _, _)
DivSteps(b, st, k) ==
    IF k = 0 THEN st
    ELSE IF k = 1
    THEN The({DivStep(b, r1, q1) : r1 \in {ShiftL(st.r, 1)}, q1 \in {ShiftL(st.q, 1)}})
    ELSE The({DivSteps(b, half, k - k \div 2) : half \in {DivSteps(b, st, k \div 2)}})

\* The quotient q (rounded down) and the remainder r of x * 2^QuotientShift
\* by y, for mantissas x and y.
LongDivision(x, y) ==
    IF Less(x, y) THEN DivSteps(y, [q |-> Zero4, r |-> x], QuotientShift)
    ELSE The({DivSteps(y, [q |-> One4, r |-> r0], QuotientShift) : r0 \in {Sub(x, y)}})

\* The float nearest to (q + f) * 2^e, ties to the even mantissa, for a
\* quotient q of more than 53 bits and a fraction f that is 0 exactly when
\* exact.
Nearest(q, exact, e) ==
    LET d    == BitLen(q) - MantissaBits
        kept == ShiftR(q, d)
        sticky == ~exact \/ \E i \in 1..(d - 1) : BitOf(q, i) = 1
        up   == BitOf(q, d) = 1 /\ (sticky \/ kept[1] % 2 = 1)
    IN IF ~up THEN [kind |-> "num", m |-> kept, e |-> e + d]
       ELSE The({IF BitLen(m1) = MantissaBits + 1
                 THEN [kind |-> "num", m |-> ShiftR(m1, 1), e |-> e + d + 1]
                 ELSE [kind |-> "num", m |-> m1, e |-> e + d] : m1 \in {Inc(kept)}})

\* A float is NaN, infinity or m * 2^e with m = 0 or 2^52 <= m < 2^53 (the
\* program's numbers are never negative and far from the subnormal range).
FloatNaN == [kind |-> "nan", m |-> Zero4, e |-> 0]
FloatInf == [kind |-> "inf", m |-> Zero4, e |-> 0]
FloatZero == [kind |-> "num", m |-> Zero4, e |-> 0]

\* float(n) of a natural number below 2^31: exact.
FromInt(n) ==
    IF n = 0 THEN FloatZero
    ELSE The({[kind |-> "num", m |-> ShiftL(a, MantissaBits - BitLen(a)),
               e |-> BitLen(a) - MantissaBits] :
              a \in {<<n % W, (n \div W) % W, n \div (W * W), 0>>}})

\* float of a cell of the GDP column.
FloatIEEE(cell) == IF cell.nan THEN FloatNaN ELSE FromInt(cell.n)

IsNaN(x) == x.kind = "nan"
IsZero(x) == x.kind = "num" /\ x.m = Zero4

\* x / y of numpy.float64: the quotient of the two values, rounded to the
\* nearest float, ties to the even mantissa.
DivIEEE(x, y) ==
    IF x.kind = "nan" \/ y.kind = "nan" THEN FloatNaN
    ELSE IF x.kind = "inf" THEN (IF y.kind = "inf" THEN FloatNaN ELSE FloatInf)
    ELSE IF y.kind = "inf" THEN FloatZero
    ELSE IF y.m = Zero4 THEN (IF x.m = Zero4 THEN FloatNaN ELSE FloatInf)
    ELSE IF x.m = Zero4 THEN FloatZero
    ELSE The({Nearest(dm.q, dm.r = Zero4, x.e - y.e - QuotientShift) :
              dm \in {LongDivision(x.m, y.m)}})

\* The integer nearest to x * c, ties to the even one, as the format
\* specifications ",.0f" (c = 1) and ",.2f" (c = 100) round a float x that
\* is a number; for x * c below 2^31.
RoundIEEE(x, c) ==
    The({The({LET d == -x.e
                  sticky == \E i \in 1..(d - 1) : BitOf(N, i) = 1
                  up == BitOf(N, d) = 1 /\ (sticky \/ k % 2 = 1)
              IN IF up THEN k + 1 ELSE k : k \in {ToInt(ShiftR(N, -x.e))}}) :
         N \in {MulSmall(x.m, c)}})

\* ------------------------------------------------- text <-> number
DigitChars == <<"0", "1", "2", "3", "4", "5", "6", "7", "8", "9">>

\* str(y): the decimal digits of a natural number.
RECURSIVE Str(_)
Str(n) == IF n < 10 THEN <<DigitChars[n + 1]>>
          ELSE Append(Str(n \div 10), DigitChars[(n % 10) + 1])

DigitVal(c) == CHOOSE d \in 0..9 : DigitChars[d + 1] = c

\* pd.to_numeric / the csv parser on a string of decimal digits.
RECURSIVE ToNumeric(_)
ToNumeric(t) == IF Len(t) = 0 THEN 0
                ELSE 10 * ToNumeric(SubSeq(t, 1, Len(t) - 1)) + DigitVal(t[Len(t)])

\* -------------------------------------------------------- the data file
\* A file is its header (which identifying and which year columns it has)
\* and its data rows; cells are text.  Numeric cells are sequences of
\* characters, "Country ..." cells are strings.
IdCols == {"Country Name", "Country Code"}
DOTS == <<".", ".">>
EMPTY == <<>>
\* na_values=['..'] on top of the parser's default markers.
NumericNA == {DOTS, EMPTY}
NaNStr == "NaN"
StringNA == {"", "#N/A", "#N/A N/A", "#NA", "-1.#IND", "-1.#QNAN", "-NaN", "-nan",
             "1.#IND", "1.#QNAN", "<NA>", "N/A", "NA", "NULL", "NaN", "None",
             "n/a", "nan", "null", ".."}

ValueTokens == {DOTS, <<"0">>, <<"1", "0">>, <<"2", "5">>}
\* The order in which a file stores the rows of the default countries (by
\* country name).
StoredCodes == <<"BRA", "FRA", "DEU", "JPN", "MEX", "GBR">>
\* The code cell of a further row: a default country once more, another
\* country, no code.
ExtraCodes == {"DEU", "USA", ""}
NameFor(code) == CASE code = "BRA" -> "Brazil"
                   [] code = "FRA" -> "France"
                   [] code = "DEU" -> "Germany"
                   [] code = "JPN" -> "Japan"
                   [] code = "MEX" -> "Mexico"
                   [] code = "GBR" -> "United Kingdom"
                   [] code = "USA" -> "United States"
                   [] OTHER -> "Not classified"
\* The cells of a default country's row: its first year and its later years.
StoredVals(code) == CASE code = "BRA" -> <<<<"0">>, <<"1", "0">>>>
                      [] code = "FRA" -> <<<<"8">>, <<"7">>>>
                      [] code = "DEU" -> <<<<"1", "0">>, <<"2", "5">>>>
                      [] code = "JPN" -> <<DOTS, <<"2", "5">>>>
                      [] code = "MEX" -> <<<<"1", "0">>, DOTS>>
                      [] code = "GBR" -> <<<<"4", "0", "0">>, <<"1", "0">>>>
                      [] OTHER -> <<DOTS, DOTS>>

\* (variant: range(MIN_YEAR, MAX_YEAR), the last year left out)
year_cols_ExclusiveEnd == [i \in 1..(NumYears - 1) |-> Str(MIN_YEAR + i - 1)]

\* year_cols = [str(y) for y in range(MIN_YEAR, MAX_YEAR + 1)]
year_cols == [i \in 1..NumYears |-> Str(MIN_YEAR + i - 1)]

\* The year columns of a complete file: the loader's range and one later
\* year the loader does not ask for.
FileYearCols == {Str(y) : y \in MIN_YEAR..(MAX_YEAR + 1)}
MaxExtraRows == MaxExtraCells \div NumYears

Headers ==
    {[id_cols |-> IdCols, year_cols |-> FileYearCols]}
    \cup {[id_cols |-> IdCols \ {c}, year_cols |-> FileYearCols] : c \in IdCols}
    \cup {[id_cols |-> IdCols, year_cols |-> FileYearCols \ {l}] : l \in Range(year_cols)}

first_year_col == year_cols[1]

\* A data row: the value a in the first year's column, b in the later ones.
Row(h, c, a, b) ==
    [name |-> NameFor(c), code |-> c,
     vals |-> [l \in h.year_cols |-> IF l = first_year_col THEN a ELSE b]]

\* The rows of the default countries a file holds: those of the codes kept.
StoredRows(h, kept) ==
    LET Keep(r) == r.code \in kept
    IN SelectSeq([i \in 1..Len(StoredCodes) |->
                     Row(h, StoredCodes[i], StoredVals(StoredCodes[i])[1],
                         StoredVals(StoredCodes[i])[2])], Keep)

\* The further rows a file may hold.
RowsFor(h) == {Row(h, c, a, b) : c \in ExtraCodes, a \in ValueTokens, b \in ValueTokens}

\* The file with header h and data rows rs.
File(h, rs) == [id_cols |-> h.id_cols, year_cols |-> h.year_cols, rows |-> rs]

\* ---------------------------------------------------------- get_gdp_data
\* The csv parser on one cell of an object column and of a numeric column.
ParseStr(tok) == IF tok \in StringNA THEN NaNStr ELSE tok
\* (variant: a missing numeric cell is filled with 0)
ParseFloat_ZeroFill(tok) == IF tok \in NumericNA THEN Num(0) ELSE Num(ToNumeric(tok))
ParseFloat(tok) == IF tok \in NumericNA THEN NaN ELSE Num(ToNumeric(tok))

\* pd.read_csv(DATA_FILENAME, skiprows=4, na_values=['..'])
read_csv(f) ==
    [id_cols |-> f.id_cols, year_cols |-> f.year_cols,
     rows |-> [i \in 1..Len(f.rows) |->
                 [name |-> ParseStr(f.rows[i].name),
                  code |-> ParseStr(f.rows[i].code),
                  vals |-> [l \in f.year_cols |-> ParseFloat(f.rows[i].vals[l])]]]]

\* (variant: only the year labels are looked up)
HasColumns_YearsOnly(raw) == Range(year_cols) \subseteq raw.year_cols

\* raw_gdp_df[['Country Name', 'Country Code'] + year_cols] raises KeyError
\* when a label is not a column of the frame.
HasColumns(raw) == IdCols \subseteq raw.id_cols /\ Range(year_cols) \subseteq raw.year_cols

\* (variant: every pass takes the first value column)
melt_FirstColumn(raw, value_vars) ==
    LET n == Len(raw.rows)
    IN [k \in 1..(n * Len(value_vars)) |->
          LET r == raw.rows[((k - 1) % n) + 1]
              l == value_vars[1]
          IN [Country_Name |-> r.name, Country_Code |-> r.code,
              Year |-> l, GDP |-> r.vals[l]]]

\* DataFrame.melt: for each value column in turn, one record per row.
melt(raw, value_vars) ==
    LET n == Len(raw.rows)
    IN [k \in 1..(n * Len(value_vars)) |->
          LET r == raw.rows[((k - 1) % n) + 1]
              l == value_vars[((k - 1) \div n) + 1]
          IN [Country_Name |-> r.name, Country_Code |-> r.code,
              Year |-> l, GDP |-> r.vals[l]]]

\* gdp_df['Year'] = pd.to_numeric(gdp_df['Year'])
YearToNumeric(df) == [k \in 1..Len(df) |-> [df[k] EXCEPT !.Year = ToNumeric(df[k].Year)]]

\* The body of get_gdp_data on the file f: the long table, or KeyError.
get_gdp_data(f) ==
    LET raw == read_csv(f)
    IN IF ~HasColumns(raw) THEN [raised |-> TRUE, df |-> <<>>]
       ELSE [raised |-> FALSE, df |-> YearToNumeric(melt(raw, year_cols))]

NoCache == [full |-> FALSE, df |-> <<>>]

\* (variant: no memoization, the body runs on every call)
cache_data_NoMemo(c, f) ==
    LET res == get_gdp_data(f)
    IN [raised |-> res.raised, df |-> res.df,
        cache |-> IF res.raised THEN c ELSE [full |-> TRUE, df |-> res.df]]

\* @st.cache_data: a stored return value is handed back without running the
\* body; a call that raises stores nothing.
cache_data(c, f) ==
    IF c.full THEN [raised |-> FALSE, df |-> c.df, cache |-> c]
    ELSE LET res == get_gdp_data(f)
         IN [raised |-> res.raised, df |-> res.df,
             cache |-> IF res.raised THEN c ELSE [full |-> TRUE, df |-> res.df]]

\* --------------------------------------------- the floats of the metrics
\* The floats the metrics meet over the cells of a data file, each computed
\* once: the floats the cells hold, 1e9, the quotients and the roundings.
BillionFloat == FromInt(BILLION)
FileTokens == ValueTokens \cup UNION {Range(StoredVals(c)) : c \in Range(StoredCodes)}
CellTable == {[cell |-> ParseFloat(t), f |-> FloatIEEE(ParseFloat(t))] : t \in FileTokens}
Billionths == {DivIEEE(t.f, BillionFloat) : t \in CellTable}
QuotientTable ==
    {[x |-> p[1], y |-> p[2], q |-> DivIEEE(p[1], p[2])] :
        p \in ({t.f : t \in CellTable} \X {BillionFloat}) \cup (Billionths \X Billionths)}
RoundTable ==
    {[x |-> p[1], c |-> p[2], n |-> RoundIEEE(p[1], p[2])] :
        p \in {x \in Billionths \cup {t.q : t \in QuotientTable} : x.kind = "num"}
                 \X {1, 100}}

\* The entry of a table when there is one (found), else the value computed.
Known(found, computed) == IF found = {} THEN computed ELSE CHOOSE t \in found : TRUE

\* The float a cell of the GDP column holds.
Float(cell) ==
    Known({t.f : t \in {u \in CellTable : u.cell = cell}}, FloatIEEE(cell))

\* x / y
FloatDiv(x, y) ==
    Known({t.q : t \in {u \in QuotientTable : u.x = x /\ u.y = y}}, DivIEEE(x, y))

\* round(x * c), ties to even
Round(x, c) ==
    Known({t.n : t \in {u \in RoundTable : u.x = x /\ u.c = c}}, RoundIEEE(x, c))

\* ------------------------------------------------------------ the script
VARIABLES
    file,                \* world_gdp.csv as it is on disk
    cache,               \* what st.cache_data holds for get_gdp_data
    outcome,             \* "none", "ok", or the exception that ended the last run
    gdp_df,              \* the long table of the last run
    from_year, to_year,  \* what the slider returned
    selected_countries,  \* what the multiselect returned
    chart,               \* the chart area: nothing, the warning, or the charted rows
    metrics              \* the metric tiles, in the order they were drawn

vars == <<file, cache, outcome, gdp_df, from_year, to_year, selected_countries,
          chart, metrics>>

\* Series.unique(): the distinct values in order of first appearance.
RECURSIVE unique(_)
unique(s) ==
    IF Len(s) = 0 THEN <<>>
    ELSE LET u == unique(SubSeq(s, 1, Len(s) - 1))
         IN IF s[Len(s)] \in Range(u) THEN u ELSE Append(u, s[Len(s)])

Column(df, name) ==
    [k \in 1..Len(df) |-> CASE name = "Country Code" -> df[k].Country_Code
                            [] name = "Year" -> df[k].Year
                            [] OTHER -> df[k].GDP]

SeqMin(s) == CHOOSE m \in Range(s) : \A x \in Range(s) : m <= x
SeqMax(s) == CHOOSE m \in Range(s) : \A x \in Range(s) : m >= x

\* The multiselect raises StreamlitAPIException unless every default value
\* is one of its options.
DefaultsOffered(options) == Range(DefaultCodes) \subseteq Range(options)

\* The sequence s without its i-th element.
RemoveAt(s, i) == SubSeq(s, 1, i - 1) \o SubSeq(s, i + 1, Len(s))

\* What one interaction with a multiselect that shows the selection cur makes
\* of it: an option more, at the end; a chosen option less; none at all.
Edits(options, cur) ==
    {Append(cur, o) : o \in Range(options) \ Range(cur)}
    \cup {RemoveAt(cur, i) : i \in 1..Len(cur)}
    \cup {<<>>}

\* The selections the user keeps to: MaxSelected countries, or the default
\* ones and MaxSelected more.
Kept(s) ==
    \/ Len(s) <= MaxSelected
    \/ /\ Len(s) >= Len(DefaultCodes)
       /\ Len(s) <= Len(DefaultCodes) + MaxSelected
       /\ SubSeq(s, 1, Len(DefaultCodes)) = DefaultCodes

\* What the multiselect returns: its default when the page does not show it
\* yet; else the selection it shows, edited or not, or (a new session) the
\* default again.
Selections(options, shown, cur) ==
    IF ~shown THEN {DefaultCodes}
    ELSE {DefaultCodes, cur} \cup {s \in Edits(options, cur) : Kept(s)}

\* Elementwise == on an object column: NaN equals nothing.
CodeEq(a, b) == a # NaNStr /\ b # NaNStr /\ a = b
\* Series.isin: membership, under which a missing value matches a missing value.
IsIn(a, sel) == \E i \in 1..Len(sel) : sel[i] = a

\* gdp_df[isin(selected_countries) & (Year >= from_year) & (Year <= to_year)]
Filtered(df, sel, fy, ty) ==
    LET Keep(r) == IsIn(r.Country_Code, sel) /\ r.Year >= fy /\ r.Year <= ty
    IN SelectSeq(df, Keep)

\* gdp_df[gdp_df['Year'] == y]
YearFrame(df, y) == LET Keep(r) == r.Year = y IN SelectSeq(df, Keep)

\* year_df[year_df['Country Code'] == country]['GDP']
GdpOf(year_df, country) ==
    LET Keep(r) == CodeEq(r.Country_Code, country)
    IN Column(SelectSeq(year_df, Keep), "GDP")

\* (variant: the except branch yields 0.0)
BillionsOrZero(series) ==
    IF Len(series) = 0 THEN FloatZero ELSE FloatDiv(Float(series[1]), BillionFloat)

\* try: series.iat[0] / 1e9   except IndexError: float('nan')
BillionsOrNaN(series) ==
    IF Len(series) = 0 THEN FloatNaN ELSE FloatDiv(Float(series[1]), BillionFloat)

\* f"{x:,.2f}x": the float in hundredths, or "nan", "inf".
Format2f(x) ==
    IF x.kind = "nan" THEN [text |-> "nanx", n |-> 0]
    ELSE IF x.kind = "inf" THEN [text |-> "infx", n |-> 0]
    ELSE [text |-> "x", n |-> Round(x, 100)]

\* (variant: the quotient is taken the other way round)
Growth_Inverted(first_gdp, last_gdp) ==
    IF IsNaN(first_gdp) \/ IsZero(first_gdp)
    THEN [delta |-> [text |-> "n/a", n |-> 0], delta_color |-> "off"]
    ELSE [delta |-> Format2f(FloatDiv(first_gdp, last_gdp)), delta_color |-> "normal"]

\* The growth label and its colour.
Growth(first_gdp, last_gdp) ==
    IF IsNaN(first_gdp) \/ IsZero(first_gdp)
    THEN [delta |-> [text |-> "n/a", n |-> 0], delta_color |-> "off"]
    ELSE [delta |-> Format2f(FloatDiv(last_gdp, first_gdp)), delta_color |-> "normal"]

\* f"{last_gdp:,.0f}B" if not math.isnan(last_gdp) else 'n/a': the float in
\* units, or "inf".
Value(last_gdp) ==
    IF IsNaN(last_gdp) THEN [text |-> "n/a", n |-> 0]
    ELSE IF last_gdp.kind = "inf" THEN [text |-> "infB", n |-> 0]
    ELSE [text |-> "B", n |-> Round(last_gdp, 1)]

\* st.metric(label=..., value=..., delta=growth, delta_color=delta_color)
\* in the column cols[i % 4]; g is the growth label and its colour.
Tile(i, country, last_gdp, g) ==
    [col |-> (i - 1) % NumCols, label |-> country, value |-> Value(last_gdp),
     delta |-> g.delta, delta_color |-> g.delta_color]

\* One turn of the loop: the tile of the i-th selected country.
Metric(first_year_df, last_year_df, i, country) ==
    LET first_gdp == BillionsOrNaN(GdpOf(first_year_df, country))
        last_gdp  == BillionsOrNaN(GdpOf(last_year_df, country))
    IN Tile(i, country, last_gdp, Growth(first_gdp, last_gdp))

\* (variant: the loop runs over the offered countries that are selected)
MetricsLoop_TableOrder(df, sel, first_year_df, last_year_df) ==
    LET Chosen(c) == IsIn(c, sel)
        order == SelectSeq(unique(Column(df, "Country Code")), Chosen)
    IN [i \in 1..Len(order) |-> Metric(first_year_df, last_year_df, i, order[i])]

\* for i, country in enumerate(selected_countries): ...
MetricsLoop(df, sel, first_year_df, last_year_df) ==
    [i \in 1..Len(sel) |-> Metric(first_year_df, last_year_df, i, sel[i])]

NoChart == [kind |-> "none", data |-> <<>>]
Chart(filtered) == IF Len(filtered) = 0 THEN [kind |-> "warning", data |-> <<>>]
                   ELSE [kind |-> "chart", data |-> filtered]

\* The data file: rows of default countries, followed by up to MaxExtraRows
\* further rows.
Init ==
    /\ \E h \in Headers, kept \in SUBSET Range(DefaultCodes), n \in 0..MaxExtraRows :
          \E xs \in [1..n -> RowsFor(h)] : file = File(h, StoredRows(h, kept) \o xs)
    /\ cache = NoCache
    /\ outcome = "none"
    /\ gdp_df = <<>>
    /\ from_year = 0
    /\ to_year = 0
    /\ selected_countries = <<>>
    /\ chart = NoChart
    /\ metrics = <<>>

\* A run that an exception ended before anything was drawn: in the loader,
\* at the slider (exc with the table df) or at the multiselect (with the
\* range fy..ty the slider returned).
Aborted(exc, df, fy, ty) ==
    /\ outcome' = exc
    /\ gdp_df' = df
    /\ from_year' = fy
    /\ to_year' = ty
    /\ selected_countries' = <<>>
    /\ chart' = NoChart
    /\ metrics' = <<>>

\* The page of the last run shows the slider, the multiselect.
SliderShown == outcome \in {"ok", "StreamlitAPIException"}
MultiselectShown == outcome = "ok"

\* What the slider returns: its default (min_year, max_year) when the page
\* does not show it yet, else the range the user has set.
Ranges(min_year, max_year, shown) ==
    {r \in (min_year..max_year) \X (min_year..max_year) :
        /\ r[1] <= r[2]
        /\ ~shown => r = <<min_year, max_year>>}

\* One run of the script, top to bottom.  A run on a page that shows both
\* widgets is caused by one of them changing while the other keeps its
\* value, or by a new session, which starts from the defaults.
Rerun ==
    \E res \in {cache_data(cache, file)} :    \* gdp_df = get_gdp_data()
       /\ cache' = res.cache
       /\ UNCHANGED file
       /\ IF res.raised THEN Aborted("KeyError", <<>>, 0, 0)
          \* int(gdp_df['Year'].min()) of a table without rows
          ELSE IF Len(res.df) = 0 THEN Aborted("ValueError", res.df, 0, 0)
          ELSE \E min_year \in {SeqMin(Column(res.df, "Year"))},
                  max_year \in {SeqMax(Column(res.df, "Year"))},
                  countries \in {unique(Column(res.df, "Country Code"))} :
               \E r \in Ranges(min_year, max_year, SliderShown) :
                  IF ~DefaultsOffered(countries)
                  THEN Aborted("StreamlitAPIException", res.df, r[1], r[2])
                  ELSE \E sel \in Selections(countries, MultiselectShown,
                                             selected_countries) :
                          /\ MultiselectShown =>
                               \/ sel = selected_countries
                               \/ r = <<from_year, to_year>>
                               \/ sel = DefaultCodes /\ r = <<min_year, max_year>>
                          /\ outcome' = "ok"
                          /\ gdp_df' = res.df
                          /\ from_year' = r[1]
                          /\ to_year' = r[2]
                          /\ selected_countries' = sel
                          /\ chart' = Chart(Filtered(res.df, sel, r[1], r[2]))
                          /\ \E first_year_df \in {YearFrame(res.df, r[1])},
                                last_year_df \in {YearFrame(res.df, r[2])} :
                                metrics' = MetricsLoop(res.df, sel, first_year_df,
                                                       last_year_df)

\* The environment: the data file is overwritten and keeps its header only.
ClearFile ==
    /\ Len(file.rows) > 0
    /\ file' = [file EXCEPT !.rows = <<>>]
    /\ UNCHANGED <<cache, outcome, gdp_df, from_year, to_year, selected_countries,
                   chart, metrics>>

\* The script over a data file that stays as it is.
Next == Rerun

Spec == Init /\ [][Next]_vars

\* The script over a data file that changes between runs.
NextFileChange == Rerun \/ ClearFile

SpecFileChange == Init /\ [][NextFileChange]_vars

\* ======================================================== the properties
\* A code names an entity when it is there; a missing code names none.
SameEntity(code, c) == code # NaNStr /\ c # NaNStr /\ code = c

\* The long records of entity c for year y in the table of the last run.
RecordsAt(c, y) ==
    {k \in 1..Len(gdp_df) : SameEntity(gdp_df[k].Country_Code, c) /\ gdp_df[k].Year = y}

\* The table value of entity c for year y, where one record holds it.
OneRecord(c, y) == Cardinality(RecordsAt(c, y)) = 1
TableValue(c, y) == gdp_df[CHOOSE k \in RecordsAt(c, y) : TRUE].GDP
Present(c, y) == OneRecord(c, y) /\ ~TableValue(c, y).nan
\* Absent: no record, or a record whose value is missing.
Absent(c, y) == RecordsAt(c, y) = {} \/ (OneRecord(c, y) /\ TableValue(c, y).nan)

Tiles == 1..Len(metrics)

\* C1: whenever the start value is absent, the end value is absent or the
\* start value is 0, the growth label of the entity's tile is "n/a" (never
\* the rendering of an infinite or not-a-number ratio).
C1_GrowthAbsent ==
    outcome = "ok" =>
        \A i \in Tiles :
            LET c == selected_countries[i]
            IN (\/ Absent(c, from_year)
                \/ Absent(c, to_year)
                \/ (Present(c, from_year) /\ TableValue(c, from_year).n = 0))
               => metrics[i].delta.text = "n/a"

\* C2: for a selected entity whose start and end values are both present and
\* whose start value is not 0, the growth label shows end / start of the
\* table values at from_year and to_year (to the two decimals it is drawn
\* with: it is within half a hundredth of the quotient).
C2_GrowthRatio ==
    outcome = "ok" =>
        \A i \in Tiles :
            LET c == selected_countries[i]
                s == TableValue(c, from_year)
                e == TableValue(c, to_year)
            IN (Present(c, from_year) /\ Present(c, to_year) /\ s.n # 0)
               => /\ metrics[i].delta.text = "x"
                  /\ 2 * Abs(metrics[i].delta.n * s.n - 100 * e.n) <= s.n

\* A tile of an entity with start value 10 and end value 25 shows 2.50x; of
\* the quotients halfway between two hundredths, that of start value 400
\* and end value 10 (0.025) is drawn 0.03x and that of start value 8 and end
\* value 7 (0.875) is drawn 0.87x, as the float quotients are.
C2_Witness ==
    /\ outcome = "ok"
    /\ \E i \in Tiles :
          LET c == selected_countries[i]
          IN /\ Present(c, from_year) /\ Present(c, to_year)
             /\ TableValue(c, from_year) = Num(10)
             /\ TableValue(c, to_year) = Num(25)
             /\ metrics[i].delta = [text |-> "x", n |-> 250]
    /\ \E j \in Tiles :
          LET c == selected_countries[j]
          IN /\ Present(c, from_year) /\ Present(c, to_year)
             /\ TableValue(c, from_year) = Num(400)
             /\ TableValue(c, to_year) = Num(10)
             /\ metrics[j].delta = [text |-> "x", n |-> 3]
    /\ \E k \in Tiles :
          LET c == selected_countries[k]
          IN /\ Present(c, from_year) /\ Present(c, to_year)
             /\ TableValue(c, from_year) = Num(8)
             /\ TableValue(c, to_year) = Num(7)
             /\ metrics[k].delta = [text |-> "x", n |-> 87]

\* The run has come as far as the metrics loop: the table is loaded, has
\* rows, and offers every default of the multiselect.
LoopReached ==
    /\ cache.full
    /\ Len(cache.df) > 0
    /\ DefaultsOffered(unique(Column(cache.df, "Country Code")))

\* C3: the metrics loop never raises, whatever the table lacks: a run that
\* has come as far as the loop ends normally, with a tile for every requested
\* code; an entity without a record or without a value for from_year gets
\* the growth label "n/a" whatever its end value, and an entity without a
\* record or without a value for to_year gets the value "n/a".
C3_MissingRecords ==
    /\ LoopReached => (outcome = "ok" /\ Len(metrics) = Len(selected_countries))
    /\ outcome = "ok" =>
          \A i \in Tiles :
              LET c == selected_countries[i]
              IN /\ Absent(c, from_year) => metrics[i].delta.text = "n/a"
                 /\ Absent(c, to_year) => metrics[i].value.text = "n/a"

\* Tiles were drawn for a requested code that no record of the table
\* carries, and for an entity whose start value is missing and whose end
\* value is present.
C3_Witness ==
    /\ outcome = "ok"
    /\ from_year < to_year
    /\ \E i \in Tiles :
          /\ RecordsAt(selected_countries[i], from_year) = {}
          /\ RecordsAt(selected_countries[i], to_year) = {}
          /\ metrics[i].delta.text = "n/a"
          /\ metrics[i].value.text = "n/a"
    /\ \E j \in Tiles :
          /\ OneRecord(selected_countries[j], from_year)
          /\ TableValue(selected_countries[j], from_year).nan
          /\ Present(selected_countries[j], to_year)
          /\ metrics[j].delta.text = "n/a"
          /\ metrics[j].value.text = "B"

\* C4: a run that looks up an (entity, year) pair which two or more records
\* of the table carry does not end normally with a tile for that entity.
C4_DuplicateIsFatal ==
    outcome = "ok" =>
        \A i \in Tiles :
            /\ Cardinality(RecordsAt(selected_countries[i], from_year)) <= 1
            /\ Cardinality(RecordsAt(selected_countries[i], to_year)) <= 1

\* C7: there is one tile per requested code, in the order of the request.
C7_RequestOrder ==
    outcome = "ok" =>
        /\ Len(metrics) = Len(selected_countries)
        /\ \A i \in Tiles : metrics[i].label = selected_countries[i]

\* First position of code c in the table.
FirstAt(c) == CHOOSE k \in 1..Len(gdp_df) :
                 /\ gdp_df[k].Country_Code = c
                 /\ \A j \in 1..(k - 1) : gdp_df[j].Country_Code # c

\* The six default codes were requested, the first two in the reverse of the
\* order the table stores them.
C7_Witness ==
    /\ outcome = "ok"
    /\ selected_countries = DefaultCodes
    /\ Len(metrics) = Len(DefaultCodes)
    /\ FirstAt(selected_countries[1]) > FirstAt(selected_countries[2])
    /\ metrics[1].label = selected_countries[1]
    /\ metrics[2].label = selected_countries[2]

\* ---------------------------------------------------------- the reshape
\* (Under Spec the data file on disk is the file the loader has read.)
WideRows == 1..Len(file.rows)
WideName(i) == ParseStr(file.rows[i].name)
WideCode(i) == ParseStr(file.rows[i].code)
RequiredPresent ==
    /\ "Country Name" \in file.id_cols
    /\ "Country Code" \in file.id_cols
    /\ \A y \in MIN_YEAR..MAX_YEAR : Str(y) \in file.year_cols

\* The long records with the name and code of wide row i and the year y.
LongOf(i, y) ==
    {k \in 1..Len(cache.df) :
        /\ cache.df[k].Country_Name = WideName(i)
        /\ cache.df[k].Country_Code = WideCode(i)
        /\ cache.df[k].Year = y}
\* The wide rows with the name and code of wide row i.
Twins(i) == {j \in WideRows : WideName(j) = WideName(i) /\ WideCode(j) = WideCode(i)}

\* C5: the long table has (wide rows) x (MAX_YEAR - MIN_YEAR + 1) rows: for
\* each wide row and each year of the range one row with the wide row's name
\* and code, and no row for a year outside the range.
C5_Cardinality ==
    cache.full =>
        /\ Len(cache.df) = Len(file.rows) * (MAX_YEAR - MIN_YEAR + 1)
        /\ \A i \in WideRows : \A y \in MIN_YEAR..MAX_YEAR :
              Cardinality(LongOf(i, y)) = Cardinality(Twins(i))
        /\ \A k \in 1..Len(cache.df) :
              cache.df[k].Year >= MIN_YEAR /\ cache.df[k].Year <= MAX_YEAR

\* A file of several data rows, with its later year column, was reshaped.
C5_Witness ==
    /\ cache.full
    /\ Len(file.rows) > 2
    /\ Str(MAX_YEAR + 1) \in file.year_cols
    /\ Len(cache.df) = Len(file.rows) * NumYears

SharePair(a, b) == SameEntity(a.Country_Code, b.Country_Code) /\ a.Year = b.Year

\* C6 as stated: no two records of a long table share (entity code, year).
C6_UniquePairs ==
    cache.full =>
        \A k1, k2 \in 1..Len(cache.df) :
            k1 # k2 => ~SharePair(cache.df[k1], cache.df[k2])

DistinctWideCodes ==
    \A i, j \in WideRows : i # j => ~SameEntity(WideCode(i), WideCode(j))

\* C6 (amended): the long table of a wide table whose rows carry pairwise
\* different entity codes has no two records that share (entity code, year).
C6_UniquePairsOfDistinctCodes ==
    (cache.full /\ DistinctWideCodes) =>
        \A k1, k2 \in 1..Len(cache.df) :
            k1 # k2 => ~SharePair(cache.df[k1], cache.df[k2])

\* A file of several rows with different entity codes was reshaped.
C6_Witness ==
    /\ cache.full
    /\ Len(file.rows) > 2
    /\ DistinctWideCodes
    /\ \A i \in WideRows : WideCode(i) # NaNStr
    /\ Len(cache.df) = Len(file.rows) * NumYears

\* C8: the load fails (KeyError, the schema error of the source) exactly when
\* a required column is absent from the file, whatever the cells hold, and a
\* failed load leaves no table behind.
C8_MissingColumn ==
    outcome # "none" =>
        /\ (outcome = "KeyError") <=> ~RequiredPresent
        /\ ~RequiredPresent => (~cache.full /\ gdp_df = <<>> /\ metrics = <<>>)
        /\ RequiredPresent => cache.full

\* A file with data rows and without one required column was loaded.
C8_Witness ==
    /\ outcome = "KeyError"
    /\ ~RequiredPresent
    /\ Len(file.rows) > 0
    /\ ~cache.full

\* The wide rows named like row i whose cell for year y is the token "..".
SentinelTwins(i, y) == {j \in Twins(i) : file.rows[j].vals[Str(y)] = DOTS}
\* The long records of row i's entity and year y whose value is absent.
AbsentLongOf(i, y) == {k \in LongOf(i, y) : cache.df[k].GDP = NaN}

\* C9: a ".." cell becomes an absent value (not a zero, not text): per entity
\* and year as many long values are absent as wide cells hold "..", and
\* every year of the long table is an integer.
C9_SentinelIsAbsent ==
    cache.full =>
        /\ \A i \in WideRows : \A y \in MIN_YEAR..MAX_YEAR :
              Cardinality(AbsentLongOf(i, y)) = Cardinality(SentinelTwins(i, y))
        /\ \A k \in 1..Len(cache.df) : cache.df[k].Year \in Int

\* A file with a ".." cell and a zero cell in its year range was reshaped.
C9_Witness ==
    /\ cache.full
    /\ \E i \in WideRows : \E y \in MIN_YEAR..MAX_YEAR :
          /\ file.rows[i].vals[Str(y)] = DOTS
          /\ AbsentLongOf(i, y) # {}
    /\ \E k \in 1..Len(cache.df) : cache.df[k].GDP = Num(0)

\* ------------------------------------------------------------ the cache
\* C10: once the loader's result is cached, every later run uses that very
\* table and nothing replaces it, whatever the data file has become.
C10_Memoized ==
    [][cache.full => (cache' = cache /\ gdp_df' = cache.df)]_vars

\* A page drawn from the cached table while the file on disk would now
\* load differently.
C10_Witness ==
    /\ cache.full
    /\ outcome = "ok"
    /\ gdp_df = cache.df
    /\ get_gdp_data(file).df # cache.df

====
